---- MODULE Spec2Model ----
(***************************************************************************)
(* thotkeys: a model of src/thotkeys.c.                                    *)
(*                                                                         *)
(* main() parses the command line into an array of struct hotkey_config,   *)
(* command_hotkeys() resolves every hotkey into its checkmap and then runs *)
(* the event loop: reap terminated children, wait for one raw key/button   *)
(* event, update every hotkey that requires the event's code, spawn the    *)
(* command on activation and send SIGTERM on deactivation.                 *)
(*                                                                         *)
(* Not modelled: --verbose, --help, --monitor, --device (they do not touch *)
(* the hotkey array), the X11 connection, and the text of the commands.    *)
(***************************************************************************)
EXTENDS Integers, Sequences, FiniteSets, TLC

(* ---- bounds of the model ---- *)

\* number of command-line options getopt_long() hands to main()
MaxArgs == 6
\* distinct in-range codes per channel that the model uses (codes 1..NumCodes)
NumCodes == 2
\* size of the kernel's pid space available to the children (pids 1..MaxPid)
MaxPid == 2

(* ---- program constants ---- *)

\* highest code of a map: char keys[256], char buttons[256]
MaxCode == 255
\* offsetof(struct hotkey_map, keys)
OffKeys == 0
\* offsetof(struct hotkey_map, buttons)
OffButtons == 256
\* c->pid = -1: the hotkey has no child
NoPid == -1
\* pointer value NULL
NULL == 0

(* ---- value domains ---- *)

\* A --key argument is modelled by the keycode the X server resolves it to
\* (XStringToKeysym, XKeysymToKeycode); a string that does not resolve would
\* be 0 (NoSymbol, or keycode 0). The command lines of the model use
\* resolvable names and valid button numbers only.
KeyArgs == 1..NumCodes
\* A --button argument is modelled by the number strtol() reads from it.
ButtonArgs == 1..NumCodes
\* what a read of freed or never written memory can yield as a button number
GarbageVals == 0..NumCodes
Channels == {"key", "button"}
\* codes an event can carry: in range, and one beyond the maps
EventCodes == (1..NumCodes) \cup {MaxCode + 1}
Pids == 1..MaxPid

VARIABLES
    pc,           \* where the program is: "getopt", "run", "reap", "wait", "exit"
    nargs,        \* options consumed so far
    do_hotkeys,   \* main(): bool do_hotkeys
    keys,         \* main(): keys[0..numkeys-1]; <<>> is keys == NULL, numkeys == 0
    buttons,      \* main(): the pointer buttons (NULL, or the address of its block)
    buttons_mem,  \* contents of the block buttons points to
    numbuttons,   \* main(): numbuttons
    on_press,     \* main(): on_press != NULL
    hotkeys,      \* the array hotkeys[0..numhotkeys-1] of struct hotkey_config
    procs,        \* the children: pid -> state, and which hotkey forked it
    ev,           \* the event process_event() returned last
    down,         \* the (channel, code) pairs whose last event was a press
    forked,       \* fork() calls of the last event: <<hotkey, result>>
    killed,       \* kill(pid, SIGTERM) calls of the last event: <<hotkey, pid>>
    warned,       \* hotkeys for which warn("... still running") was printed
    reaped,       \* pids waitpid() returned in the last reap pass (debug(), line 281)
    sigcount,     \* per hotkey: SIGTERMs sent since its last activation
    exit_status,  \* exit status, -1 while the process runs
    diag          \* text printed by fatal(), "" if none

vars == <<pc, nargs, do_hotkeys, keys, buttons, buttons_mem, numbuttons, on_press,
          hotkeys, procs, ev, down, forked, killed, warned, reaped, sigcount,
          exit_status, diag>>

mainVars == <<do_hotkeys, keys, buttons, buttons_mem, numbuttons, on_press>>
runVars == <<procs, ev, down, forked, killed, warned, reaped, sigcount>>

NoEvent == [channel |-> "none", detail |-> 0, pressed |-> FALSE]
FreeProc == [state |-> "free", owner |-> 0, current |-> FALSE]

Init ==
    /\ pc = "getopt"
    /\ nargs = 0
    /\ do_hotkeys = FALSE
    /\ keys = <<>>
    /\ buttons = NULL
    /\ buttons_mem = <<>>
    /\ numbuttons = 0
    /\ on_press = FALSE
    /\ hotkeys = <<>>
    /\ procs = [p \in Pids |-> FreeProc]
    /\ ev = NoEvent
    /\ down = {}
    /\ forked = {}
    /\ killed = {}
    /\ warned = {}
    /\ reaped = {}
    /\ sigcount = <<>>
    /\ exit_status = -1
    /\ diag = ""

(* ---- main(): option parsing ---- *)

\* fatal(...): print the diagnostic and exit(1)
Fatal(msg) ==
    /\ pc' = "exit"
    /\ exit_status' = 1
    /\ diag' = msg

\* the compound literal assigned to hotkeys[numhotkeys++]; the members it
\* does not name (keymap, checkmap, activated, pid) are zero
NewHotkey ==
    [keystrs |-> keys, buttonstrs |-> buttons, numbuttonstrs |-> numbuttons,
     on_press |-> on_press,
     keymap |-> {}, checkmap |-> {}, activated |-> FALSE, pid |-> 0]

\* the test main() makes before it records a hotkey
MissingOptions == (keys = <<>> /\ buttons = NULL) \/ ~on_press

\* case 'K'
OptHotkey ==
    /\ pc = "getopt"
    /\ nargs < MaxArgs
    /\ nargs' = nargs + 1
    /\ IF do_hotkeys
       THEN IF MissingOptions
            THEN /\ Fatal("--key and --on-press options are required")
                 /\ UNCHANGED <<mainVars, hotkeys>>
            ELSE /\ hotkeys' = Append(hotkeys, NewHotkey)
                 /\ keys' = <<>>
                 /\ numbuttons' = 0
                 /\ on_press' = FALSE
                 /\ UNCHANGED <<pc, exit_status, diag, do_hotkeys, buttons, buttons_mem>>
       ELSE /\ do_hotkeys' = TRUE
            /\ UNCHANGED <<pc, exit_status, diag, keys, buttons, buttons_mem,
                           numbuttons, on_press, hotkeys>>
    /\ UNCHANGED runVars

\* case 'k'
OptKey(k) ==
    /\ pc = "getopt"
    /\ nargs < MaxArgs
    /\ nargs' = nargs + 1
    /\ keys' = Append(keys, k)
    /\ UNCHANGED <<pc, exit_status, diag, do_hotkeys, buttons, buttons_mem,
                   numbuttons, on_press, hotkeys>>
    /\ UNCHANGED runVars

\* the block after realloc(buttons, sizeof(*buttons) * n): the first
\* min(old, n) elements are kept
Resized(mem, n) ==
    [j \in 1..n |-> IF j <= Len(mem) THEN mem[j] ELSE 0]

\* case 'b': realloc() either resizes the block in place or moves it to a new
\* address and frees the old one
OptButton(b) ==
    /\ pc = "getopt"
    /\ nargs < MaxArgs
    /\ nargs' = nargs + 1
    /\ \E moved \in BOOLEAN :
          /\ (buttons = NULL) => moved
          /\ buttons' = IF moved THEN buttons + 1 ELSE buttons
    /\ buttons_mem' = [Resized(buttons_mem, numbuttons + 1) EXCEPT ![numbuttons + 1] = b]
    /\ numbuttons' = numbuttons + 1
    /\ UNCHANGED <<pc, exit_status, diag, do_hotkeys, keys, on_press, hotkeys>>
    /\ UNCHANGED runVars

\* case 'p'
OptOnPress ==
    /\ pc = "getopt"
    /\ nargs < MaxArgs
    /\ nargs' = nargs + 1
    /\ on_press' = TRUE
    /\ UNCHANGED <<pc, exit_status, diag, do_hotkeys, keys, buttons, buttons_mem,
                   numbuttons, hotkeys>>
    /\ UNCHANGED runVars

\* getopt_long() returns -1: the code after the option loop
EndOfOptions ==
    /\ pc = "getopt"
    /\ IF do_hotkeys
       THEN IF MissingOptions
            THEN /\ Fatal("--key and --on-press options are required")
                 /\ UNCHANGED hotkeys
            ELSE /\ hotkeys' = Append(hotkeys, NewHotkey)
                 /\ pc' = "run"
                 /\ UNCHANGED <<exit_status, diag>>
       ELSE \* no command: main() returns 0
            /\ pc' = "exit"
            /\ exit_status' = 0
            /\ UNCHANGED <<diag, hotkeys>>
    /\ UNCHANGED <<nargs, mainVars, runVars>>

(* ---- command_hotkeys(): initialisation ---- *)

Min(a, b) == IF a < b THEN a ELSE b

\* buttonstrs[j] of hotkey c for the j that lie inside the live block
ButtonsRead(c) ==
    IF c.buttonstrs = buttons
    THEN {buttons_mem[j] : j \in 1..Min(c.numbuttonstrs, Len(buttons_mem))}
    ELSE {}

\* number of buttonstrs[j] of hotkey c that lie in freed memory (realloc()
\* moved the block after the hotkey was recorded) or beyond the block's end
InvalidReads(c) ==
    IF c.buttonstrs = buttons
    THEN c.numbuttonstrs - Min(c.numbuttonstrs, Len(buttons_mem))
    ELSE c.numbuttonstrs

Range(s) == {s[j] : j \in 1..Len(s)}

\* offset of map[detail] inside struct hotkey_map
Offset(channel, detail) ==
    (IF channel = "key" THEN OffKeys ELSE OffButtons) + detail

\* the loop body of lines 250-274 for one hotkey; g is what its invalid reads
\* yielded. The argument strings are read here for the last time: the model
\* drops them from the hotkey, so that states which differ only in the
\* spelling of the command line coincide once the event loop runs.
InitHotkey(c, g) ==
    [keystrs |-> <<>>, buttonstrs |-> NULL, numbuttonstrs |-> 0,
     on_press |-> c.on_press,
     keymap |-> {},
     checkmap |-> {Offset("key", k) : k \in Range(c.keystrs)}
                  \cup {Offset("button", b) : b \in ButtonsRead(c) \cup g},
     activated |-> FALSE,
     pid |-> NoPid]

BadKey(c) == \E k \in Range(c.keystrs) : k = 0
BadButton(c, g) == \E b \in ButtonsRead(c) \cup g : b < 1 \/ b > MaxCode

CommandHotkeysInit ==
    /\ pc = "run"
    /\ \E g \in [1..Len(hotkeys) -> SUBSET GarbageVals] :
          /\ \A i \in 1..Len(hotkeys) :
                /\ Cardinality(g[i]) <= InvalidReads(hotkeys[i])
                /\ (g[i] = {}) <=> (InvalidReads(hotkeys[i]) = 0)
          /\ IF \E i \in 1..Len(hotkeys) : BadKey(hotkeys[i]) \/ BadButton(hotkeys[i], g[i])
             THEN /\ Fatal("could not be recognized")
                  /\ UNCHANGED <<hotkeys, sigcount>>
             ELSE /\ hotkeys' = [i \in 1..Len(hotkeys) |-> InitHotkey(hotkeys[i], g[i])]
                  /\ sigcount' = [i \in 1..Len(hotkeys) |-> 0]
                  /\ pc' = "reap"
                  /\ UNCHANGED <<exit_status, diag>>
    \* main()'s locals are out of scope in command_hotkeys(), which never returns
    /\ nargs' = 0
    /\ do_hotkeys' = FALSE
    /\ keys' = <<>>
    /\ buttons' = NULL
    /\ buttons_mem' = <<>>
    /\ numbuttons' = 0
    /\ on_press' = FALSE
    /\ UNCHANGED <<procs, ev, down, forked, killed, warned, reaped>>

(* ---- command_hotkeys(): the event loop ---- *)

Hotkeys == 1..Len(hotkeys)

\* the children waitpid(-1, ..., WNOHANG) can return
Zombies == {p \in Pids : procs[p].state = "zombie"}

\* mutant of WaitOptions: waitpid(-1, &status, 0)
WaitOptionsNone == "0"

\* the options argument of waitpid()
WaitOptions == "WNOHANG"

\* the reap pass cannot complete: without WNOHANG, waitpid() blocks as long as
\* a child runs
WaitpidBlocks ==
    WaitOptions # "WNOHANG" /\ \E p \in Pids : procs[p].state = "running"

\* mutant of ReapClears: the inner loop looks at hotkeys[0] only
ReapClearsFirstOnly(i, pid) == i = 1 /\ hotkeys[i].pid = pid

\* mutant of ReapClears: the reap pass forgets to reset the pid
ReapClearsNothing(i, pid) == FALSE

\* mutant of ReapClears: the comparison with the reaped pid is missing
ReapClearsAnyChild(i, pid) == hotkeys[i].pid # NoPid

\* the hotkey the inner loop of the reap pass clears for a reaped pid: the
\* first one whose pid matches
ReapClears(i, pid) ==
    /\ hotkeys[i].pid = pid
    /\ \A j \in 1..(i - 1) : hotkeys[j].pid # pid

\* lines 277-289: reap until waitpid() reports no terminated child, then
\* block in process_event(). ev, forked, killed and warned record what the
\* evaluation of one event did; they are cleared when the next iteration
\* starts. reaped records what this pass reaped, until the next event.
ReapPass ==
    /\ pc = "reap"
    /\ ~WaitpidBlocks
    /\ hotkeys' = [i \in Hotkeys |->
                     IF \E p \in Zombies : ReapClears(i, p)
                     THEN [hotkeys[i] EXCEPT !.pid = NoPid]
                     ELSE hotkeys[i]]
    /\ procs' = [p \in Pids |-> IF p \in Zombies THEN FreeProc ELSE procs[p]]
    /\ ev' = NoEvent
    /\ forked' = {}
    /\ killed' = {}
    /\ warned' = {}
    /\ reaped' = Zombies
    /\ pc' = "wait"
    /\ UNCHANGED <<nargs, mainVars, down, sigcount, exit_status, diag>>

\* a child terminates (on its own or because of a signal) and becomes a zombie
ChildExit(p) ==
    /\ pc \in {"reap", "wait"}
    /\ procs[p].state = "running"
    /\ procs' = [procs EXCEPT ![p].state = "zombie"]
    /\ UNCHANGED <<pc, nargs, mainVars, hotkeys, ev, down, forked, killed, warned,
                   reaped, sigcount, exit_status, diag>>

\* mutant of Requires: the filter of line 317 is missing
RequiresAny(c, offset) == TRUE

\* line 317: the hotkey requires the event's code
Requires(c, offset) == offset \in c.checkmap

\* line 320: *((char *)&c->keymap + offset) = pressed
SetKey(c, offset, pressed) ==
    IF pressed THEN c.keymap \cup {offset} ELSE c.keymap \ {offset}

\* mutant of Matched: memcmp() over the keys member only
MatchedKeysOnly(c, offset, pressed) ==
    {o \in c.checkmap : o < OffButtons}
        = {o \in (IF pressed THEN c.keymap \cup {offset} ELSE c.keymap \ {offset}) :
              o < OffButtons}

\* line 321: !memcmp(&c->checkmap, &c->keymap, sizeof(c->checkmap))
Matched(c, offset, pressed) == c.checkmap = SetKey(c, offset, pressed)

\* mutant of Activates: any press of a required code activates
ActivatesOnEveryPress(c, offset, pressed) ==
    Requires(c, offset) /\ ~c.activated /\ pressed

\* mutant of Activates: the test of c->activated is missing
ActivatesWheneverMatched(c, offset, pressed) ==
    Requires(c, offset) /\ Matched(c, offset, pressed)

\* line 323
Activates(c, offset, pressed) ==
    Requires(c, offset) /\ ~c.activated /\ Matched(c, offset, pressed)

\* line 333
Deactivates(c, offset, pressed) ==
    Requires(c, offset) /\ c.activated /\ ~Matched(c, offset, pressed)

\* mutant of WarnsStillRunning: the test of c->pid is inverted
WarnsIfNoChild(c, offset, pressed) ==
    Activates(c, offset, pressed) /\ c.pid = NoPid

\* line 324
WarnsStillRunning(c, offset, pressed) ==
    Activates(c, offset, pressed) /\ c.pid # NoPid

\* mutant of SendsSigterm: SIGTERM whenever the hotkey does not match
SendsSigtermWheneverUnmatched(c, offset, pressed) ==
    Requires(c, offset) /\ ~Matched(c, offset, pressed) /\ c.pid # NoPid

\* line 334
SendsSigterm(c, offset, pressed) ==
    Deactivates(c, offset, pressed) /\ c.pid # NoPid

\* lines 316-339 for one hotkey; r is what fork() returned if it was called
Evaluate(c, offset, pressed, r) ==
    IF ~Requires(c, offset)
    THEN c
    ELSE [c EXCEPT !.keymap = SetKey(c, offset, pressed),
                   !.pid = IF Activates(c, offset, pressed) THEN r ELSE c.pid,
                   !.activated = Matched(c, offset, pressed)]

\* mutant of OutOfRange: off by one
OutOfRangeOffByOne(detail) == detail > MaxCode + 1

\* lines 299 and 306
OutOfRange(detail) == detail > MaxCode

\* what the fork() calls of one event can return: -1, or the pid of a new
\* child, which no unreaped process has
ForkResults(offset, pressed) ==
    {r \in [Hotkeys -> Pids \cup {NoPid}] :
        /\ \A i \in Hotkeys :
              IF Activates(hotkeys[i], offset, pressed)
              THEN r[i] = NoPid \/ procs[r[i]].state = "free"
              ELSE r[i] = NoPid
        /\ \A i, j \in Hotkeys : (i # j /\ r[i] # NoPid) => r[i] # r[j]}

\* lines 291-340: process_event() returns an event, and it is evaluated.
\* The body of the loop over the hotkeys reads and writes only its own
\* hotkey, so it is applied to every hotkey at once.
\* procs records for every child the hotkey that forked it and whether it was
\* forked in that hotkey's current activation: a change of the hotkey's
\* activated flag ends the activation its earlier children belong to.
\* sigcount counts the kill() calls per hotkey since its last activation.
HandleEvent(channel, detail, pressed) ==
    /\ pc = "wait"
    /\ ev' = [channel |-> channel, detail |-> detail, pressed |-> pressed]
    /\ reaped' = {}
    /\ IF OutOfRange(detail)
       THEN /\ Fatal(IF channel = "key" THEN "unexpected keycode"
                                        ELSE "unexpected button number")
            /\ UNCHANGED <<hotkeys, procs, down, forked, killed, warned, sigcount>>
       ELSE LET offset == Offset(channel, detail) IN
            \E r \in ForkResults(offset, pressed) :
              /\ hotkeys' = [i \in Hotkeys |-> Evaluate(hotkeys[i], offset, pressed, r[i])]
              /\ forked' = {<<i, r[i]>> : i \in {h \in Hotkeys :
                                              Activates(hotkeys[h], offset, pressed)}}
              /\ warned' = {i \in Hotkeys : WarnsStillRunning(hotkeys[i], offset, pressed)}
              /\ killed' = {<<i, hotkeys[i].pid>> : i \in {h \in Hotkeys :
                                              SendsSigterm(hotkeys[h], offset, pressed)}}
              /\ procs' = [p \in Pids |->
                            IF \E i \in Hotkeys : r[i] = p
                            THEN [state |-> "running",
                                  owner |-> CHOOSE i \in Hotkeys : r[i] = p,
                                  current |-> TRUE]
                            ELSE IF /\ procs[p].state # "free"
                                    /\ hotkeys[procs[p].owner].activated
                                         # hotkeys'[procs[p].owner].activated
                                 THEN [procs[p] EXCEPT !.current = FALSE]
                                 ELSE procs[p]]
              /\ sigcount' = [i \in Hotkeys |->
                               IF Activates(hotkeys[i], offset, pressed) THEN 0
                               ELSE IF SendsSigterm(hotkeys[i], offset, pressed)
                                         /\ sigcount[i] < 3
                                    THEN sigcount[i] + 1
                                    ELSE sigcount[i]]
              /\ down' = IF pressed THEN down \cup {<<channel, detail>>}
                                    ELSE down \ {<<channel, detail>>}
              /\ pc' = "reap"
              /\ UNCHANGED <<exit_status, diag>>
    /\ UNCHANGED <<nargs, mainVars>>

Next ==
    \/ OptHotkey
    \/ \E k \in KeyArgs : OptKey(k)
    \/ \E b \in ButtonArgs : OptButton(b)
    \/ OptOnPress
    \/ EndOfOptions
    \/ CommandHotkeysInit
    \/ ReapPass
    \/ \E p \in Pids : ChildExit(p)
    \/ \E channel \in Channels, detail \in EventCodes, pressed \in BOOLEAN :
          HandleEvent(channel, detail, pressed)

Spec == Init /\ [][Next]_vars

\* process_event() returns some event
EventArrives ==
    \E channel \in Channels, detail \in EventCodes, pressed \in BOOLEAN :
        HandleEvent(channel, detail, pressed)

(* ---- the event loop on its own ---- *)

\* Command lines with more options than MaxArgs, for the properties of the
\* loop with overlapping hotkeys: one hotkey {key 1}; {key 1} and
\* {key 1, key 2}; {key 1, key 2} and {key 1, button 1}. A command line is
\* given as its declarations <<keys, buttons>>, each with --on-press; only
\* the last declaration names buttons, so no block of buttons is shared.
LoopCommandLines ==
    { << <<{1}, {}>> >>,
      << <<{1}, {}>>, <<{1, 2}, {}>> >>,
      << <<{1, 2}, {}>>, <<{1}, {1}>> >> }

\* the hotkey main() records for declaration d, after the loop body of lines
\* 250-274 has run for it
LoadedHotkey(d) ==
    [keystrs |-> <<>>, buttonstrs |-> NULL, numbuttonstrs |-> 0,
     on_press |-> TRUE,
     keymap |-> {},
     checkmap |-> {Offset("key", k) : k \in d[1]}
                  \cup {Offset("button", b) : b \in d[2]},
     activated |-> FALSE,
     pid |-> NoPid]

\* command_hotkeys() at line 276, about to enter the loop for the first time
LoopInit ==
    /\ pc = "reap"
    /\ nargs = 0
    /\ do_hotkeys = FALSE
    /\ keys = <<>>
    /\ buttons = NULL
    /\ buttons_mem = <<>>
    /\ numbuttons = 0
    /\ on_press = FALSE
    /\ \E line \in LoopCommandLines :
          /\ hotkeys = [i \in 1..Len(line) |-> LoadedHotkey(line[i])]
          /\ sigcount = [i \in 1..Len(line) |-> 0]
    /\ procs = [p \in Pids |-> FreeProc]
    /\ ev = NoEvent
    /\ down = {}
    /\ forked = {}
    /\ killed = {}
    /\ warned = {}
    /\ reaped = {}
    /\ exit_status = -1
    /\ diag = ""

LoopNext ==
    \/ ReapPass
    \/ \E p \in Pids : ChildExit(p)
    \/ EventArrives

SpecLoop == LoopInit /\ [][LoopNext]_vars

\* The loop with its scheduling: the process keeps running, so a reap pass
\* that can start does (waitpid() is called with WNOHANG and returns at once),
\* and the X server keeps delivering input events to the blocked
\* process_event(). Nothing is assumed about the children.
SpecLive == SpecLoop /\ WF_vars(ReapPass) /\ WF_vars(EventArrives)

(* ---- vocabulary of the properties ---- *)

\* the engine is inside the event loop
InLoop == pc \in {"reap", "wait"}

\* this step evaluates an in-range event (lines 315-340 ran); ev' is the event
EventStep == pc = "wait" /\ pc' = "reap"

\* offset of the event that was evaluated last
EvOffset(e) == Offset(e.channel, e.detail)

\* map offsets of a set of (channel, code) pairs
Offsets(pairs) == {Offset(q[1], q[2]) : q \in pairs}

\* the unreaped child that hotkey i forked in its current activation
CurrentChildren(i) ==
    {p \in Pids : procs[p].state # "free" /\ procs[p].owner = i /\ procs[p].current}

\* the running children hotkey i forked
LiveChildren(i) ==
    {p \in Pids : procs[p].state = "running" /\ procs[p].owner = i}

(* ---- C1 ---- *)

\* C1 (P2, exact match): activated becomes true only in the evaluation of a
\* press of a member of the required set R that leaves every member of R
\* down, and that press does activate; activated becomes false on the release
\* of any member of R; an event whose pair is outside R never changes
\* activated, whatever else is down; no other step changes activated.
C1_ExactMatch ==
    [][InLoop =>
        \A i \in Hotkeys :
          LET c == hotkeys[i]
              R == c.checkmap
              now == hotkeys'[i].activated
          IN  IF EventStep
              THEN LET e == EvOffset(ev')
                       completes == ev'.pressed /\ e \in R /\ R \subseteq Offsets(down')
                   IN  /\ (~c.activated /\ now) => completes
                       /\ completes => now
                       /\ (c.activated /\ ~ev'.pressed /\ e \in R) => ~now
                       /\ (e \notin R) => (now = c.activated)
              ELSE now = c.activated]_vars

\* C1 witness: a two-member combination was activated by the press that
\* completed it while a pair outside its required set was down
C1_Witness ==
    /\ pc = "reap"
    /\ ev.pressed
    /\ \E i \in Hotkeys :
          /\ Cardinality(hotkeys[i].checkmap) = 2
          /\ EvOffset(ev) \in hotkeys[i].checkmap
          /\ hotkeys[i].activated
          /\ \E r \in Pids : <<i, r>> \in forked
          /\ \E q \in down : Offset(q[1], q[2]) \notin hotkeys[i].checkmap

(* ---- C2 ---- *)

\* C2 (I1) as claimed: whenever the engine waits for the next event, every
\* hotkey is activated exactly if its keymap equals its checkmap
C2_I1 ==
    pc = "wait" =>
        \A i \in Hotkeys : hotkeys[i].activated <=> (hotkeys[i].keymap = hotkeys[i].checkmap)

(* ---- C3 ---- *)

\* C3: when a hotkey goes from activated to not activated and the child of
\* that activation is not yet reaped, kill(SIGTERM) is called for exactly
\* that child; every kill() of an event is such a call; and the step does not
\* wait: the child's state is as before and the loop goes on to the reap pass.
C3_SigtermToOwnChild ==
    [][EventStep =>
        /\ \A i \in Hotkeys :
              (hotkeys[i].activated /\ ~hotkeys'[i].activated) =>
                  \A p \in CurrentChildren(i) :
                      /\ <<i, p>> \in killed'
                      /\ procs'[p].state = procs[p].state
        /\ \A k \in killed' :
              /\ hotkeys[k[1]].activated /\ ~hotkeys'[k[1]].activated
              /\ k[2] \in CurrentChildren(k[1])]_vars

\* C3 witness: a deactivation has just sent SIGTERM to a child that is still
\* running
C3_Witness ==
    /\ pc = "reap"
    /\ \E i \in Hotkeys, p \in Pids :
          /\ killed = {<<i, p>>}
          /\ ~hotkeys[i].activated
          /\ procs[p].state = "running"
          /\ procs[p].owner = i

(* ---- C4 ---- *)

\* C4 (P1, independence): an event whose pair is required by hotkey a leaves
\* keymap, activated and pid of every hotkey b whose required set is disjoint
\* from a's unchanged; a key event with code n leaves a hotkey that requires
\* only button n unchanged, and a button event one that requires only key n.
C4_Independence ==
    [][EventStep =>
        /\ \A a, b \in Hotkeys :
              (/\ hotkeys[a].checkmap \cap hotkeys[b].checkmap = {}
               /\ EvOffset(ev') \in hotkeys[a].checkmap)
              => hotkeys'[b] = hotkeys[b]
        /\ \A b \in Hotkeys :
              LET other == IF ev'.channel = "key" THEN "button" ELSE "key"
              IN  hotkeys[b].checkmap = {Offset(other, ev'.detail)}
                  => hotkeys'[b] = hotkeys[b]]_vars

\* C4 witness: of two hotkeys, one requiring only key n and one only button n,
\* the key event activated the first and the second is untouched
C4_Witness ==
    /\ pc = "reap"
    /\ ev.channel = "key"
    /\ ev.pressed
    /\ \E a, b \in Hotkeys :
          /\ hotkeys[a].checkmap = {Offset("key", ev.detail)}
          /\ hotkeys[b].checkmap = {Offset("button", ev.detail)}
          /\ hotkeys[a].activated
          /\ ~hotkeys[b].activated
          /\ hotkeys[b].keymap = {}

(* ---- C5 ---- *)

\* C5 (I2) as claimed: no hotkey ever has more than one running child
C5_AtMostOneLiveChild ==
    \A i \in Hotkeys : Cardinality(LiveChildren(i)) <= 1

\* C5 amended: no hotkey ever has more than one unreaped child that was forked
\* in its current activation (children of its earlier activations may still
\* run beside it)
C5_AtMostOneChildPerActivation ==
    \A i \in Hotkeys : Cardinality(CurrentChildren(i)) <= 1

\* C5 witness: a hotkey with two running children, one of them forked in the
\* current activation
C5_Witness ==
    \E i \in Hotkeys :
        /\ hotkeys[i].activated
        /\ Cardinality(LiveChildren(i)) = 2
        /\ Cardinality(CurrentChildren(i)) = 1

(* ---- C6 ---- *)

\* this step activates hotkey i while its pid is not -1
Reactivates(i) ==
    /\ EventStep
    /\ ~hotkeys[i].activated
    /\ hotkeys'[i].activated
    /\ hotkeys[i].pid # NoPid

\* pid p names a child that exists after the step and did not before it
NewChild(p) ==
    /\ p \in Pids
    /\ procs[p].state = "free"
    /\ procs'[p].state = "running"

\* C6 (P5) as claimed: a hotkey that activates while its pid is not -1 is
\* warned about, and its pid then names a new child
C6_ReactivationSpawns ==
    [][\A i \in Hotkeys :
          Reactivates(i) => (i \in warned' /\ NewChild(hotkeys'[i].pid))]_vars

\* C6 amended: a hotkey that activates while its pid is not -1 is warned
\* about and fork() is called once for it without waiting for the previous
\* child, whose state the step leaves as it was; the pid is then what fork()
\* returned: a new child, distinct from the previous one, or -1 if fork()
\* failed
C6_ReactivationForks ==
    [][\A i \in Hotkeys :
          Reactivates(i) =>
              /\ i \in warned'
              /\ \E r \in Pids \cup {NoPid} :
                    /\ {k \in forked' : k[1] = i} = {<<i, r>>}
                    /\ hotkeys'[i].pid = r
                    /\ r # NoPid => (NewChild(r) /\ r # hotkeys[i].pid)
              /\ \A p \in Pids :
                    procs[p].state # "free" => procs'[p].state = procs[p].state]_vars

\* C6 witness: after a warned re-activation the hotkey's pid names the new
\* child and the previous child of the hotkey is still running
C6_Witness ==
    /\ pc = "reap"
    /\ \E i \in Hotkeys, p \in Pids :
          /\ i \in warned
          /\ <<i, p>> \in forked
          /\ hotkeys[i].pid = p
          /\ procs[p].state = "running"
          /\ \E q \in Pids \ {p} : procs[q].state = "running" /\ procs[q].owner = i

(* ---- C7 ---- *)

\* C7 (I3) as claimed: a pid changes from a process identifier to -1 only in
\* the reap pass, and only if that process was a zombie waitpid() returned
C7_NoneOnlyByReap ==
    [][InLoop =>
        \A i \in Hotkeys :
            (hotkeys[i].pid # NoPid /\ hotkeys'[i].pid = NoPid) =>
                /\ pc = "reap"
                /\ pc' = "wait"
                /\ hotkeys[i].pid \in Zombies]_vars

(* ---- C8 ---- *)

\* C8 (P4, signal once): no hotkey has more than one SIGTERM sent on its
\* behalf since its last activation, and the evaluation of an event that
\* finds a hotkey not activated sends no SIGTERM for it
C8_SignalOnce ==
    [][EventStep =>
        \A i \in Hotkeys :
            /\ sigcount'[i] <= 1
            /\ ~hotkeys[i].activated => \A k \in killed' : k[1] # i]_vars

\* C8 witness: a release of a required code found the hotkey not activated,
\* with its signalled child still unreaped, and no second SIGTERM was sent
C8_Witness ==
    /\ pc = "reap"
    /\ ~ev.pressed
    /\ killed = {}
    /\ \E i \in Hotkeys :
          /\ EvOffset(ev) \in hotkeys[i].checkmap
          /\ ~hotkeys[i].activated
          /\ hotkeys[i].pid # NoPid
          /\ sigcount[i] = 1

(* ---- C9 ---- *)

\* C9: an event whose code is beyond 255 ends the process with a non-zero
\* exit status and a diagnostic; no hotkey changes, nothing is forked and no
\* signal is sent
C9_OutOfRangeFatal ==
    [][(pc = "wait" /\ ev'.channel \in Channels /\ ev'.detail > MaxCode) =>
          /\ pc' = "exit"
          /\ exit_status' > 0
          /\ diag' # ""
          /\ hotkeys' = hotkeys
          /\ procs' = procs
          /\ forked' = {}
          /\ killed' = {}]_vars

\* C9 witness: the process has exited on an out-of-range event while a hotkey
\* held a child
C9_Witness ==
    /\ pc = "exit"
    /\ exit_status = 1
    /\ ev.detail > MaxCode
    /\ \E i \in Hotkeys : hotkeys[i].pid # NoPid

(* ---- C10 ---- *)

\* C10 as claimed: every hotkey that gets past main() was declared with a
\* command and with at least one key or button, and every hotkey of the
\* event loop has a non-empty required set
C10_RequiredNonEmpty ==
    /\ pc = "run" =>
          \A i \in Hotkeys :
              /\ hotkeys[i].on_press
              /\ hotkeys[i].keystrs # <<>> \/ hotkeys[i].numbuttonstrs > 0
    /\ InLoop => \A i \in Hotkeys : hotkeys[i].checkmap # {}

(* ---- C11 ---- *)

\* fork() was called for hotkey i in this step and failed
SpawnFails(i) == EventStep /\ <<i, NoPid>> \in forked'

\* C11 as claimed: when the fork() of an activation fails, a warning is
\* printed for the hotkey (the loop has one warn(), that of line 325, which is
\* counted here as the report), the process does not exit, the hotkey is
\* activated with pid -1, and the loop goes on with the next iteration
C11_SpawnFailureReported ==
    [][\A i \in Hotkeys :
          SpawnFails(i) =>
              /\ i \in warned'
              /\ pc' = "reap"
              /\ exit_status' = -1
              /\ hotkeys'[i].activated
              /\ hotkeys'[i].pid = NoPid]_vars

(* ---- C12 ---- *)

\* this step is a reap pass (lines 277-289)
ReapStep == pc = "reap" /\ pc' = "wait"

\* the hotkeys whose pid is that of a terminated, unreaped child
Referenced == {i \in Hotkeys : hotkeys[i].pid \in Zombies}

\* C12 (P3, idempotent reaping): a reap pass never changes a keymap or an
\* activated flag; when no child has terminated since the previous pass it
\* changes no hotkey at all; and the pid of a hotkey is changed only if it is
\* the pid of a reaped child, so reaping a child that no hotkey references
\* changes no pid.
C12_IdempotentReap ==
    [][ReapStep =>
          /\ \A i \in Hotkeys :
                /\ hotkeys'[i].keymap = hotkeys[i].keymap
                /\ hotkeys'[i].activated = hotkeys[i].activated
                /\ i \notin Referenced => hotkeys'[i].pid = hotkeys[i].pid
          /\ Zombies = {} => hotkeys' = hotkeys
          /\ Referenced = {} => hotkeys' = hotkeys]_vars

\* C12 witness: a reap pass has reaped a child although every hotkey still
\* holds the pid of a running child: the reaped child was one that no hotkey
\* referenced, and no pid was changed
C12_Witness ==
    /\ pc = "wait"
    /\ reaped # {}
    /\ Hotkeys # {}
    /\ \A i \in Hotkeys :
          /\ hotkeys[i].pid # NoPid
          /\ procs[hotkeys[i].pid].state = "running"

(* ---- C13 ---- *)

\* the fork() calls this step made for hotkey i
SpawnAttempts(i) == IF EventStep THEN {k \in forked' : k[1] = i} ELSE {}

\* this step takes hotkey i from Idle to Active
IdleToActive(i) == EventStep /\ ~hotkeys[i].activated /\ hotkeys'[i].activated

\* C13: for every hotkey, a step that takes it from Idle to Active calls
\* fork() exactly once for it, and no other step calls fork() for it or
\* creates a child of it: not an event while it stays Active (required code or
\* not), not an event while it stays Idle, not a deactivation, not a reap pass.
C13_OneSpawnPerActivation ==
    [][InLoop =>
          \A i \in Hotkeys :
            IF IdleToActive(i)
            THEN Cardinality(SpawnAttempts(i)) = 1
            ELSE /\ SpawnAttempts(i) = {}
                 /\ \A p \in Pids : NewChild(p) => procs'[p].owner # i]_vars

\* C13 witness: a hotkey that is Active with a running child has seen the
\* press of one of its required codes again, and nothing was forked
C13_Witness ==
    /\ pc = "reap"
    /\ ev.pressed
    /\ forked = {}
    /\ \E i \in Hotkeys :
          /\ EvOffset(ev) \in hotkeys[i].checkmap
          /\ hotkeys[i].activated
          /\ hotkeys[i].pid # NoPid
          /\ procs[hotkeys[i].pid].state = "running"

(* ---- C14 ---- *)

\* C14 as claimed: when an event is evaluated, no child that terminated
\* before the event arrived is still unreaped, so no hotkey's pid is that of a
\* terminated child; and the "still running" warning is printed only for a
\* hotkey whose previous child is running.
C14_ReapedBeforeEvaluation ==
    [][EventStep =>
          /\ Zombies = {}
          /\ \A i \in Hotkeys : hotkeys[i].pid \notin Zombies
          /\ \A i \in warned' : procs[hotkeys[i].pid].state = "running"]_vars

(* ---- C15 ---- *)

\* this step takes hotkey i from Active to Idle
ActiveToIdle(i) == EventStep /\ hotkeys[i].activated /\ ~hotkeys'[i].activated

\* C15 as claimed: when a hotkey goes from Active to Idle and no child of its
\* current activation is running any more (the child has exited, reaped or
\* not), kill() is not called for the hotkey.
C15_NoSignalAfterExit ==
    [][\A i \in Hotkeys :
          (ActiveToIdle(i) /\ CurrentChildren(i) \cap LiveChildren(i) = {})
              => \A k \in killed' : k[1] # i]_vars

(* ---- C16 ---- *)

\* C16: a reap pass always completes and the loop gets to wait for the next
\* event; while input events keep arriving, a child that has terminated is
\* eventually reaped unless the process has exited by fatal(); the reap pass
\* that reaps it sets the pid of the hotkey that referenced it to -1; and a
\* terminated child stays unreaped as long as the loop waits for an event.
C16_EventuallyReaped ==
    /\ (pc = "reap") ~> (pc = "wait")
    /\ \A p \in Pids :
          (procs[p].state = "zombie") ~> (procs[p].state = "free" \/ pc = "exit")
    /\ [][/\ ReapStep => /\ \A p \in Zombies : procs'[p].state = "free"
                         /\ \A i \in Referenced : hotkeys'[i].pid = NoPid
          /\ ~ReapStep => \A p \in Zombies : procs'[p].state = "zombie"]_vars

\* C16 witness: the loop waits for an event after a reap pass that reaped a
\* child, and meanwhile another child has terminated and is not reaped
C16_Witness ==
    /\ pc = "wait"
    /\ reaped # {}
    /\ Zombies # {}
    /\ \E i \in Hotkeys : hotkeys[i].pid \in Zombies

(* ---- C17 ---- *)

\* The reap pass of lines 277-289 when c is the only hotkey registered
SoloReap(c) == IF c.pid \in Zombies THEN [c EXCEPT !.pid = NoPid] ELSE c

\* The evaluation of event e (lines 315-340) when c is the only hotkey
\* registered: what becomes of the hotkey, and whether it is activated with a
\* fork(), warned about, deactivated, and its child signalled
SoloEvent(c, e) ==
    LET required == EvOffset(e) \in c.checkmap
        held == IF ~required THEN c.keymap
                ELSE IF e.pressed THEN c.keymap \cup {EvOffset(e)}
                ELSE c.keymap \ {EvOffset(e)}
        active == IF required THEN held = c.checkmap ELSE c.activated
    IN  [keymap |-> held,
         activated |-> active,
         spawns |-> ~c.activated /\ active,
         warns |-> ~c.activated /\ active /\ c.pid # NoPid,
         deactivates |-> c.activated /\ ~active,
         signals |-> c.activated /\ ~active /\ c.pid # NoPid]

\* C17: every step of the loop does to each hotkey, whatever the other
\* registered hotkeys and their required sets, what the loop would do if that
\* hotkey were the only one: an event changes its keymap and activated flag,
\* forks, warns and signals for it as SoloEvent says, its pid changes only to
\* the result of its own fork(), a reap pass resets its pid exactly if its own
\* child was reaped, and no other step touches it. Hotkeys are Active together
\* whenever each has all its required codes down, and only those.
C17_AsIfAlone ==
    [][InLoop =>
          /\ \A i \in Hotkeys :
            LET c == hotkeys[i]
                n == hotkeys'[i]
            IN  IF EventStep
                THEN LET o == SoloEvent(c, ev')
                     IN  /\ n.keymap = o.keymap
                         /\ n.activated = o.activated
                         /\ (\E k \in forked' : k[1] = i) <=> o.spawns
                         /\ (i \in warned') <=> o.warns
                         /\ (\E k \in killed' : k[1] = i) <=> o.signals
                         /\ \A k \in killed' : k[1] = i => k[2] = c.pid
                         /\ IF o.spawns
                            THEN /\ <<i, n.pid>> \in forked'
                                 /\ n.pid # NoPid =>
                                       NewChild(n.pid) /\ procs'[n.pid].owner = i
                            ELSE n.pid = c.pid
                ELSE IF ReapStep
                THEN n = SoloReap(c)
                ELSE n = c
          /\ \A i \in Hotkeys :
                hotkeys'[i].activated => hotkeys'[i].checkmap \subseteq Offsets(down')]_vars

\* C17 witness: the hotkeys {key 1} and {key 1, key 2} are Active at the same
\* time, each with a running child of its own, while keys 1 and 2 are down
C17_Witness ==
    /\ InLoop
    /\ Len(hotkeys) = 2
    /\ hotkeys[1].checkmap = {Offset("key", 1)}
    /\ hotkeys[2].checkmap = {Offset("key", 1), Offset("key", 2)}
    /\ down = {<<"key", 1>>, <<"key", 2>>}
    /\ \A i \in Hotkeys :
          /\ hotkeys[i].activated
          /\ hotkeys[i].pid # NoPid
          /\ procs[hotkeys[i].pid].state = "running"

(* ---- C18 ---- *)

\* the button list a recorded hotkey denotes: what buttonstrs[0..n-1] reads
\* as; it is not valid when the record points into a block that realloc()
\* has released
RecordedButtons(c) ==
    IF c.numbuttonstrs = 0 THEN [valid |-> TRUE, list |-> <<>>]
    ELSE IF c.buttonstrs = buttons /\ c.numbuttonstrs <= Len(buttons_mem)
    THEN [valid |-> TRUE, list |-> SubSeq(buttons_mem, 1, c.numbuttonstrs)]
    ELSE [valid |-> FALSE, list |-> <<>>]

\* C18 as claimed: while main() reads the options, no step changes the key
\* list or the button list of a hotkey that is already recorded, and no
\* recorded button list is ever lost.
C18_DeclarationsFrozen ==
    [][pc = "getopt" =>
          \A i \in 1..Len(hotkeys) :
            /\ hotkeys'[i].keystrs = hotkeys[i].keystrs
            /\ RecordedButtons(hotkeys[i])' = RecordedButtons(hotkeys[i])]_vars

(* ---- C19 ---- *)

\* C19: inside the loop, a pid of a hotkey that is not -1 is the pid of a
\* child this hotkey forked and that has not been reaped (it runs or is a
\* zombie); and every kill() of the last event went to a process that is
\* still unreaped, never to a pid that waitpid() has released for reuse.
C19_HandleIsUnreapedChild ==
    InLoop =>
        /\ \A i \in Hotkeys :
              hotkeys[i].pid # NoPid =>
                  /\ hotkeys[i].pid \in Pids
                  /\ procs[hotkeys[i].pid].state \in {"running", "zombie"}
                  /\ procs[hotkeys[i].pid].owner = i
        /\ \A k \in killed :
              /\ k[2] \in Pids
              /\ procs[k[2]].state \in {"running", "zombie"}
              /\ procs[k[2]].owner = k[1]

\* C19 witness: SIGTERM was sent to a child that had terminated but was not
\* reaped yet, so that its pid could not have been reused
C19_Witness ==
    /\ pc = "reap"
    /\ \E k \in killed :
          /\ procs[k[2]].state = "zombie"
          /\ hotkeys[k[1]].pid = k[2]

(* ---- C20 ---- *)

\* C20: inside the loop no two hotkeys have the same pid other than -1, so
\* the hotkey at which the reap pass stops its search is the only one that
\* has the reaped pid.
C20_UniqueHandles ==
    InLoop =>
        \A i, j \in Hotkeys :
            (i # j /\ hotkeys[i].pid # NoPid) => hotkeys[i].pid # hotkeys[j].pid

\* C20 witness: two hotkeys have pids other than -1, and the child of the
\* second has terminated: the next reap pass searches for its pid past the
\* first hotkey
C20_Witness ==
    /\ pc = "reap"
    /\ Len(hotkeys) = 2
    /\ hotkeys[1].pid # NoPid
    /\ hotkeys[2].pid # NoPid
    /\ procs[hotkeys[1].pid].state = "running"
    /\ procs[hotkeys[2].pid].state = "zombie"

====
